---------------------------- MODULE Spec2Model ----------------------------
(***************************************************************************)
(* A model of src/django_improvements.py: a flat file of Django ORM and    *)
(* migration snippets.  Each group of variables below is the database or   *)
(* interpreter state one snippet acts on; each specification exercises one *)
(* group and leaves the others at their initial value.                     *)
(***************************************************************************)
EXTENDS Integers, Sequences, FiniteSets, TLC

VARIABLES
    products,   \* table of Product (lines 40-43): pk -> [name, is_active]
    prodHist,   \* history: last operation on products, table before it, run count
    oldRows,    \* table of OldModel (line 164): pk -> name
    newRows,    \* table of NewModel (line 165): pk -> name
    copyHist,   \* history: last operation, both tables before it
    users,      \* table of User (line 6): the primary keys of its rows
    profiles,   \* table of UserProfile (lines 24-26): rows [id, user, bio]
    sig,        \* history: the last post_save event and the profiles before it
    db,         \* tables the proxy snippet can touch: table name -> rows
    proxyLast,  \* history: the last operation of the proxy snippet
    personRows,   \* table of Person (lines 111-113): rows [id, first_name, last_name]
    employeeRows, \* table of Employee(Person) (lines 115-116): rows [person_ptr, employee_id]
    applied,    \* the migrations recorded as applied
    mig,        \* history: the last two migration operations and their outcome
    executed,   \* the snippets the interpreter has executed
    ns,         \* the module namespace: name -> what it is bound to
    raised      \* the snippets whose execution raised NameError

productVars == <<products, prodHist>>
copyVars    == <<oldRows, newRows, copyHist>>
signalVars  == <<users, profiles, sig>>
proxyVars   == <<db, proxyLast>>
mtiVars     == <<personRows, employeeRows>>
migVars     == <<applied, mig>>
nameVars    == <<executed, ns, raised>>
vars == <<productVars, copyVars, signalVars, proxyVars, mtiVars, migVars, nameVars>>

\* What an action on one group of tables leaves alone.
ProductOnly == UNCHANGED <<copyVars, signalVars, proxyVars, mtiVars, migVars, nameVars>>
CopyOnly    == UNCHANGED <<productVars, signalVars, proxyVars, mtiVars, migVars, nameVars>>
SignalOnly  == UNCHANGED <<productVars, copyVars, proxyVars, mtiVars, migVars, nameVars>>
ProxyOnly   == UNCHANGED <<productVars, copyVars, signalVars, mtiVars, migVars, nameVars>>
MtiOnly     == UNCHANGED <<productVars, copyVars, signalVars, proxyVars, migVars, nameVars>>
MigOnly     == UNCHANGED <<productVars, copyVars, signalVars, proxyVars, mtiVars, nameVars>>
NameOnly    == UNCHANGED <<productVars, copyVars, signalVars, proxyVars, mtiVars, migVars>>

\* ------------------------------------------------------------------ bounds
MaxProductPk == 2   \* Product rows get the primary keys 1..MaxProductPk
MaxOldPk == 2       \* OldModel rows get the primary keys 1..MaxOldPk
MaxNewPk == 4       \* NewModel rows get the primary keys 1..MaxNewPk

\* The largest element of a non-empty set of integers.
MaxOf(S) == CHOOSE x \in S : \A y \in S : y <= x
MinOf(S) == CHOOSE x \in S : \A y \in S : x <= y

\* The primary key an INSERT receives: one past the largest key in use.
FreshPk(used) == IF used = {} THEN 1 ELSE MaxOf(used) + 1

\* ------------------------------------------------- 6. Migrations with RunPython
\* The characters of a name are "a", "A", "1" and "eszett", which stands for
\* the one character U+00DF, whose upper-case form is the two characters "SS".
\* Those that str.islower() finds lower-case:
LowerChars == {"a", "eszett"}

\* Names the model stores in Product.name before a migration runs.
SampleNames ==
    { <<>>, <<"a">>, <<"A", "a">>, <<"eszett", "1">>, <<"A", "1">> }

\* str.upper() on one character.
upper_char(c) ==
    CASE c = "a"      -> <<"A">>
      [] c = "eszett" -> <<"S", "S">>
      [] OTHER        -> <<c>>

\* str.upper(): the upper-case forms of the characters, concatenated.
RECURSIVE upper(_)
upper(s) == IF s = <<>> THEN <<>> ELSE upper_char(Head(s)) \o upper(Tail(s))

\* Model.save() of an existing instance: UPDATE of the row with the instance's
\* pk, every field written from the instance.
save(table, pk, instance) ==
    IF pk \in DOMAIN table THEN [table EXCEPT ![pk] = instance] ELSE table

\* The loop of do_something over the rows still to visit.
RECURSIVE do_something_loop(_, _)
do_something_loop(table, todo) ==
    IF todo = {} THEN table
    ELSE LET pk      == MinOf(todo)
             product == table[pk]
             renamed == [product EXCEPT !.name = upper(product.name)]
         IN  do_something_loop(save(table, pk, renamed), todo \ {pk})

\* A loop that assigns the upper-cased name and never saves the instance.
do_something_unsaved(table) == table

\* do_something(apps, schema_editor), lines 74-78.
do_something(table) == do_something_loop(table, DOMAIN table)

ProductInit ==
    /\ products = [pk \in {} |-> [name |-> <<>>, is_active |-> TRUE]]
    /\ prodHist = [op |-> "none", before |-> products, runs |-> 0]

\* Product.objects.create(name=..., is_active=...)
CreateProduct ==
    \E name \in SampleNames, active \in BOOLEAN :
        LET pk == FreshPk(DOMAIN products) IN
        /\ pk \in 1..MaxProductPk
        /\ products' = [k \in DOMAIN products \cup {pk} |->
                          IF k = pk THEN [name |-> name, is_active |-> active]
                          ELSE products[k]]
        /\ prodHist' = [op |-> "create", before |-> products, runs |-> 0]
        /\ ProductOnly

\* product.delete()
DeleteProduct ==
    \E pk \in DOMAIN products :
        /\ products' = [k \in DOMAIN products \ {pk} |-> products[k]]
        /\ prodHist' = [op |-> "delete", before |-> products, runs |-> 0]
        /\ ProductOnly

\* The migration of lines 80-88 runs RunPython(do_something).
RunDoSomething ==
    /\ products' = do_something(products)
    /\ prodHist' = [op |-> "do_something", before |-> products,
                    runs |-> IF prodHist.runs >= 1 THEN 2 ELSE 1]
    /\ ProductOnly

\* ------------------------------------------------------------ Data migrations
CopyNames == {"x", "y"}

\* NewModel.objects.create(name=...): INSERT with a fresh pk.
create_named(table, name) ==
    LET pk == FreshPk(DOMAIN table) IN
    [k \in DOMAIN table \cup {pk} |-> IF k = pk THEN name ELSE table[k]]

\* The loop of copy_data over the OldModel rows still to visit.
RECURSIVE copy_data_loop(_, _, _)
copy_data_loop(old, new, todo) ==
    IF todo = {} THEN new
    ELSE LET pk == MinOf(todo)
         IN  copy_data_loop(old, create_named(new, old[pk]), todo \ {pk})

\* A copy that skips OldModel rows whose name NewModel already holds.
copy_data_dedup(old, new) ==
    LET have == {new[k] : k \in DOMAIN new}
    IN  copy_data_loop(old, new, {pk \in DOMAIN old : old[pk] \notin have})

\* copy_data(apps, schema_editor), lines 163-167: the new NewModel table.
copy_data(old, new) == copy_data_loop(old, new, DOMAIN old)

CopyInit ==
    /\ oldRows = [pk \in {} |-> "x"]
    /\ newRows = [pk \in {} |-> "x"]
    /\ copyHist = [op |-> "none", old |-> oldRows, new |-> newRows]

\* OldModel.objects.create(name=...)
CreateOld ==
    \E name \in CopyNames :
        /\ FreshPk(DOMAIN oldRows) \in 1..MaxOldPk
        /\ oldRows' = create_named(oldRows, name)
        /\ newRows' = newRows
        /\ copyHist' = [op |-> "create_old", old |-> oldRows, new |-> newRows]
        /\ CopyOnly

\* old_model.delete()
DeleteOld ==
    \E pk \in DOMAIN oldRows :
        /\ oldRows' = [k \in DOMAIN oldRows \ {pk} |-> oldRows[k]]
        /\ newRows' = newRows
        /\ copyHist' = [op |-> "delete_old", old |-> oldRows, new |-> newRows]
        /\ CopyOnly

\* new_model.delete()
DeleteNew ==
    \E pk \in DOMAIN newRows :
        /\ newRows' = [k \in DOMAIN newRows \ {pk} |-> newRows[k]]
        /\ oldRows' = oldRows
        /\ copyHist' = [op |-> "delete_new", old |-> oldRows, new |-> newRows]
        /\ CopyOnly

\* The migration of lines 169-175 runs RunPython(copy_data).
RunCopyData ==
    /\ DOMAIN copy_data(oldRows, newRows) \subseteq 1..MaxNewPk
    /\ newRows' = copy_data(oldRows, newRows)
    /\ oldRows' = oldRows
    /\ copyHist' = [op |-> "copy_data", old |-> oldRows, new |-> newRows]
    /\ CopyOnly

\* ------------------------------------------------------------- 2. Model signals
MaxUserPk == 3      \* User rows get the primary keys 1..MaxUserPk

\* Values of UserProfile.bio; a TextField left out of create() is "".
Bios == {"", "bio"}

\* UserProfile.objects.create(user=instance): INSERT with a fresh pk.
UserProfile_create(profs, instance) ==
    profs \cup {[id   |-> FreshPk({p.id : p \in profs}),
                 user |-> instance,
                 bio  |-> ""]}

\* A receiver without the `if created:` test.
create_user_profile_always(profs, instance, created) ==
    IF \E p \in profs : p.user = instance
    THEN profs
    ELSE UserProfile_create(profs, instance)

\* create_user_profile(sender, instance, created, **kwargs), lines 28-31.
create_user_profile(profs, instance, created) ==
    IF created THEN UserProfile_create(profs, instance) ELSE profs

SignalInit ==
    /\ users = {}
    /\ profiles = {}
    /\ sig = [event |-> "none", instance |-> 0, created |-> FALSE, before |-> {}]

\* User.objects.create(...): INSERT, then post_save(sender=User, created=True).
CreateUser ==
    LET pk == FreshPk(users) IN
    /\ pk \in 1..MaxUserPk
    /\ users' = users \cup {pk}
    /\ profiles' = create_user_profile(profiles, pk, TRUE)
    /\ sig' = [event |-> "post_save", instance |-> pk, created |-> TRUE,
               before |-> profiles]
    /\ SignalOnly

\* user.save() of a row that exists: UPDATE, then post_save(created=False).
SaveUser ==
    \E pk \in users :
        /\ users' = users
        /\ profiles' = create_user_profile(profiles, pk, FALSE)
        /\ sig' = [event |-> "post_save", instance |-> pk, created |-> FALSE,
                   before |-> profiles]
        /\ SignalOnly

\* user.delete(): on_delete=models.CASCADE (line 25) deletes the user's profile.
DeleteUser ==
    \E pk \in users :
        /\ users' = users \ {pk}
        /\ profiles' = {p \in profiles : p.user /= pk}
        /\ sig' = [event |-> "delete", instance |-> pk, created |-> FALSE,
                   before |-> profiles]
        /\ SignalOnly

\* profile.bio = ...; profile.save()
SaveProfile ==
    \E p \in profiles, bio \in Bios :
        /\ bio /= p.bio
        /\ profiles' = (profiles \ {p}) \cup {[p EXCEPT !.bio = bio]}
        /\ users' = users
        /\ sig' = [event |-> "profile_save", instance |-> p.user,
                   created |-> FALSE, before |-> profiles]
        /\ SignalOnly

\* profile.delete(): the user stays, without a profile.
DeleteProfile ==
    \E p \in profiles :
        /\ profiles' = profiles \ {p}
        /\ users' = users
        /\ sig' = [event |-> "profile_delete", instance |-> p.user,
                   created |-> FALSE, before |-> profiles]
        /\ SignalOnly

\* ------------------------------------------------------------- 7. Proxy models
MaxProxyPk == 4     \* rows made in the proxy snippet get the keys 1..MaxProxyPk

\* An Employee declared without proxy = True.
Meta_proxy_missing(model) == FALSE

\* class Meta: proxy = True (lines 103-104); User declares no proxy.
Meta_proxy(model) == model = "Employee"

\* class Employee(User), line 102.
BaseOf(model) == IF model = "Employee" THEN "User" ELSE model

OwnTable(model) == IF model = "User" THEN "auth_user" ELSE "employee"

\* The table a model's queries and saves go to: a proxy uses its base's.
db_table(model) ==
    IF Meta_proxy(model) THEN OwnTable(BaseOf(model)) ELSE OwnTable(model)

\* models.Manager.get_queryset(): every row of the model's table.
Manager_get_queryset(model) == db[db_table(model)]

\* EmployeeManager.get_queryset(), lines 99-100.
EmployeeManager_get_queryset ==
    {row \in Manager_get_queryset("Employee") : row.is_employee = TRUE}

\* The manager each model's `objects` is: Employee.objects = EmployeeManager()
\* (line 105), User.objects the default manager.
Objects(model) ==
    IF model = "Employee" THEN EmployeeManager_get_queryset
    ELSE Manager_get_queryset(model)

ProxyModels == {"User", "Employee"}

ProxyInit ==
    /\ db = [t \in {"auth_user", "employee"} |-> {}]
    /\ proxyLast = [op |-> "none", model |-> "User", pk |-> 0]

AllProxyPks == {r.id : r \in db["auth_user"] \cup db["employee"]}

\* Model.objects.create(is_employee=...), through User or through the proxy.
ProxyCreate ==
    \E model \in ProxyModels, flag \in BOOLEAN :
        LET pk == FreshPk(AllProxyPks) IN
        /\ pk \in 1..MaxProxyPk
        /\ db' = [db EXCEPT ![db_table(model)] =
                     @ \cup {[id |-> pk, is_employee |-> flag]}]
        /\ proxyLast' = [op |-> "create", model |-> model, pk |-> pk]
        /\ ProxyOnly

\* obj = Model.objects.get(pk=...); obj.is_employee = ...; obj.save()
ProxySave ==
    \E model \in ProxyModels, flag \in BOOLEAN :
        \E row \in Objects(model) :
            /\ flag /= row.is_employee
            /\ db' = [db EXCEPT ![db_table(model)] =
                         (@ \ {row}) \cup {[row EXCEPT !.is_employee = flag]}]
            /\ proxyLast' = [op |-> "save", model |-> model, pk |-> row.id]
            /\ ProxyOnly

\* Model.objects.get(pk=...).delete()
ProxyDelete ==
    \E model \in ProxyModels :
        \E row \in Objects(model) :
            /\ db' = [db EXCEPT ![db_table(model)] = @ \ {row}]
            /\ proxyLast' = [op |-> "delete", model |-> model, pk |-> row.id]
            /\ ProxyOnly

\* ------------------------------------------------- 8. Multi-table inheritance
MaxPersonPk == 3    \* Person rows get the primary keys 1..MaxPersonPk

FirstNames == {"Ada", "Bo"}
LastNames == {"Lee"}
EmployeeIds == {"e1", "e2"}

\* A delete of the parent row that leaves the child row behind.
Person_delete_no_cascade(persons, employees, pk) ==
    [persons   |-> {p \in persons : p.id /= pk},
     employees |-> employees]

\* Deleting a Person row: the parent link of class Employee(Person) (line 115)
\* is a OneToOneField with on_delete=CASCADE, so the child row goes with it.
Person_delete(persons, employees, pk) ==
    [persons   |-> {p \in persons : p.id /= pk},
     employees |-> {e \in employees : e.person_ptr /= pk}]

\* Employee.objects.all(): each child row joined with its parent row.
Employee_objects ==
    {[id |-> p.id, first_name |-> p.first_name, last_name |-> p.last_name,
      employee_id |-> e.employee_id] :
        <<p, e>> \in {pe \in personRows \X employeeRows :
                          pe[1].id = pe[2].person_ptr}}

MtiInit ==
    /\ personRows = {}
    /\ employeeRows = {}

\* Person.objects.create(first_name=..., last_name=...)
CreatePerson ==
    \E fn \in FirstNames, ln \in LastNames :
        LET pk == FreshPk({p.id : p \in personRows}) IN
        /\ pk \in 1..MaxPersonPk
        /\ personRows' = personRows \cup
              {[id |-> pk, first_name |-> fn, last_name |-> ln]}
        /\ employeeRows' = employeeRows
        /\ MtiOnly

\* Employee.objects.create(first_name=..., last_name=..., employee_id=...):
\* the parent row is inserted, then the child row that points at it.
CreateEmployee ==
    \E fn \in FirstNames, ln \in LastNames, eid \in EmployeeIds :
        LET pk == FreshPk({p.id : p \in personRows}) IN
        /\ pk \in 1..MaxPersonPk
        /\ personRows' = personRows \cup
              {[id |-> pk, first_name |-> fn, last_name |-> ln]}
        /\ employeeRows' = employeeRows \cup
              {[person_ptr |-> pk, employee_id |-> eid]}
        /\ MtiOnly

\* person.delete()
DeletePerson ==
    \E p \in personRows :
        LET after == Person_delete(personRows, employeeRows, p.id) IN
        /\ personRows' = after.persons
        /\ employeeRows' = after.employees
        /\ MtiOnly

\* employee.delete(): the child row and its parent row are both deleted.
DeleteEmployee ==
    \E e \in employeeRows :
        /\ employeeRows' = employeeRows \ {e}
        /\ personRows' = {p \in personRows : p.id /= e.person_ptr}
        /\ MtiOnly

\* ---------------------------------------------------------------- migrations
\* The migrations the file declares, named after their snippets, and the
\* migrations their dependencies name (declared elsewhere).
RunPythonMigration   == <<"myapp", "run_python">>          \* lines 80-88
CopyDataMigration    == <<"myapp", "copy_data">>           \* lines 169-175
ReversibleMigration  == <<"myapp", "reversible">>          \* lines 188-194
CustomMigration      == <<"myapp", "custom_operation">>    \* lines 215-221
DependencyMigration  == <<"myapp", "dependency">>          \* lines 228-235

SourceMigrations ==
    {RunPythonMigration, CopyDataMigration, ReversibleMigration,
     CustomMigration, DependencyMigration}

ExternalMigrations ==
    {<<"myapp", "0001_initial">>, <<"myapp", "0002_auto_create_new_model">>,
     <<"another_app", "0002_add_field">>}

Migrations == SourceMigrations \cup ExternalMigrations

\* Migration.dependencies of each class.
dependencies(m) ==
    CASE m = RunPythonMigration  -> {<<"myapp", "0001_initial">>}
      [] m = CopyDataMigration   -> {<<"myapp", "0002_auto_create_new_model">>}
      [] m = ReversibleMigration -> {<<"myapp", "0001_initial">>}
      [] m = CustomMigration     -> {<<"myapp", "0001_initial">>}
      [] m = DependencyMigration -> {<<"myapp", "0001_initial">>,
                                     <<"another_app", "0002_add_field">>}
      [] OTHER                   -> {}

\* A RunPython written without reverse_code, as in lines 87 and 174.
ReversibleOperations_no_reverse ==
    <<[kind |-> "RunPython", code |-> "do_something", reverse_code |-> "None"]>>

\* operations of the migration of lines 188-194.
ReversibleOperations ==
    <<[kind |-> "RunPython", code |-> "do_something",
       reverse_code |-> "undo_something"]>>

\* Migration.operations of each class.
operations(m) ==
    CASE m = RunPythonMigration  ->
           <<[kind |-> "RunPython", code |-> "do_something",
              reverse_code |-> "None"]>>
      [] m = CopyDataMigration   ->
           <<[kind |-> "RunPython", code |-> "copy_data",
              reverse_code |-> "None"]>>
      [] m = ReversibleMigration -> ReversibleOperations
      [] m = CustomMigration     -> <<[kind |-> "CustomOperation"]>>
      [] OTHER                   -> <<>>

\* CustomOperation.reversible, line 204.
CustomOperation_reversible == TRUE

\* Operation.reversible: a RunPython is reversible when it has reverse_code.
reversible(op) ==
    IF op.kind = "RunPython" THEN op.reverse_code /= "None"
    ELSE CustomOperation_reversible

\* What running an operation forwards, or backwards, calls.
forwards(op) ==
    IF op.kind = "RunPython" THEN op.code ELSE "database_forwards"
backwards(op) ==
    IF op.kind = "RunPython" THEN op.reverse_code ELSE "database_backwards"

Reverse(s) == [i \in 1..Len(s) |-> s[Len(s) + 1 - i]]

MigInit ==
    /\ applied = {}
    /\ mig = [op |-> "none", m |-> <<>>, result |-> "ok", ran |-> <<>>,
              before |-> {}, prevOp |-> "none", prevM |-> <<>>, before2 |-> {}]

\* migrate forwards over m: every operation's forward side runs, in order, and
\* m is recorded as applied.  A migration is planned after its dependencies.
Apply ==
    \E m \in Migrations \ applied :
        /\ dependencies(m) \subseteq applied
        /\ applied' = applied \cup {m}
        /\ mig' = [op |-> "apply", m |-> m, result |-> "ok",
                   ran |-> [i \in 1..Len(operations(m)) |->
                               forwards(operations(m)[i])],
                   before |-> applied,
                   prevOp |-> mig.op, prevM |-> mig.m, before2 |-> mig.before]
        /\ MigOnly

\* Whether unapplying m finds every operation reversible; the operations of a
\* migration declared elsewhere are not known here.
CanReverse(m) ==
    IF m \in SourceMigrations
    THEN {\A i \in 1..Len(operations(m)) : reversible(operations(m)[i])}
    ELSE BOOLEAN

\* migrate backwards over m, once nothing applied depends on it: an operation
\* that is not reversible raises IrreversibleError before anything runs;
\* otherwise the reverse sides run, last operation first, and m's record goes.
Unapply ==
    \E m \in applied :
        /\ \A n \in applied : m \notin dependencies(n)
        /\ \E can \in CanReverse(m) :
              /\ applied' = IF can THEN applied \ {m} ELSE applied
              /\ mig' = [op |-> "unapply", m |-> m,
                         result |-> IF can THEN "ok" ELSE "IrreversibleError",
                         ran |-> IF can
                                 THEN Reverse([i \in 1..Len(operations(m)) |->
                                                 backwards(operations(m)[i])])
                                 ELSE <<>>,
                         before |-> applied,
                         prevOp |-> mig.op, prevM |-> mig.m,
                         before2 |-> mig.before]
        /\ MigOnly

\* ------------------------------------------------- the file as one module
Snippets ==
    {"mixins", "signals", "managers", "conditional", "query", "runpython",
     "proxy", "mti", "abstract", "index", "data_migration", "reversible",
     "custom_operation", "dependency"}

\* Names bound by the imports of lines 1-6.
PreludeNames ==
    {"models", "F", "Q", "Count", "Case", "When", "post_save", "receiver",
     "ValidationError", "User"}

\* Names a snippet's own import statements bind (lines 72, 92-93, 161, 180, 201).
Imports(s) ==
    CASE s = "runpython"        -> {"migrations"}
      [] s = "proxy"            -> {"models", "User"}
      [] s = "data_migration"   -> {"migrations", "models"}
      [] s = "reversible"       -> {"migrations"}
      [] s = "custom_operation" -> {"migrations"}
      [] OTHER                  -> {}

\* Names a snippet's class, def and assignment statements bind.
Defines(s) ==
    CASE s = "mixins"           -> {"TimestampMixin", "Author"}
      [] s = "signals"          -> {"UserProfile", "create_user_profile"}
      [] s = "managers"         -> {"ActiveProductManager", "Product"}
      [] s = "conditional"      -> {"Order"}
      [] s = "query"            -> {"books"}
      [] s = "runpython"        -> {"do_something", "Migration"}
      [] s = "proxy"            -> {"EmployeeManager", "Employee"}
      [] s = "mti"              -> {"Person", "Employee"}
      [] s = "abstract"         -> {"BaseModel", "Customer"}
      [] s = "index"            -> {"Product"}
      [] s = "data_migration"   -> {"copy_data", "Migration"}
      [] s = "reversible"       -> {"do_something", "undo_something", "Migration"}
      [] s = "custom_operation" -> {"CustomOperation", "Migration"}
      [] s = "dependency"       -> {"Migration"}

\* Module-level names a snippet reads while it executes.
Reads(s) ==
    CASE s = "mixins"           -> {"models", "TimestampMixin"}
      [] s = "signals"          -> {"models", "User", "receiver", "post_save"}
      [] s = "managers"         -> {"models", "ActiveProductManager"}
      [] s = "conditional"      -> {"models", "User", "Order", "Case", "When", "F"}
      [] s = "query"            -> {"Book", "Count", "Q"}
      [] s = "runpython"        -> {"migrations", "do_something"}
      [] s = "proxy"            -> {"models", "User", "EmployeeManager"}
      [] s = "mti"              -> {"models", "Person"}
      [] s = "abstract"         -> {"models", "BaseModel"}
      [] s = "index"            -> {"models"}
      [] s = "data_migration"   -> {"migrations", "copy_data"}
      [] s = "reversible"       -> {"migrations", "do_something", "undo_something"}
      [] s = "custom_operation" -> {"migrations", "CustomOperation"}
      [] s = "dependency"       -> {"migrations"}

ModuleNames ==
    PreludeNames \cup UNION {Imports(s) \cup Defines(s) \cup Reads(s) : s \in Snippets}

NameInit ==
    /\ executed = {}
    /\ raised = {}
    /\ ns = [n \in ModuleNames |->
               IF n \in PreludeNames THEN "django" ELSE "unbound"]

\* The interpreter executes one snippet: its imports bind their names; a read
\* of a name nothing has bound raises NameError and ends the snippet; otherwise
\* each class, def and assignment binds its name, replacing what it was bound to.
Execute ==
    \E s \in Snippets \ executed :
        LET imported == [n \in ModuleNames |->
                           IF n \in Imports(s) THEN "django" ELSE ns[n]]
            ok == \A n \in Reads(s) \ Defines(s) : imported[n] /= "unbound"
        IN  /\ executed' = executed \cup {s}
            /\ raised' = IF ok THEN raised ELSE raised \cup {s}
            /\ ns' = IF ok
                     THEN [n \in ModuleNames |->
                             IF n \in Defines(s) THEN s ELSE imported[n]]
                     ELSE imported
            /\ NameOnly

\* ------------------------------------------------------------ specifications
Init ==
    /\ ProductInit /\ CopyInit /\ SignalInit /\ ProxyInit /\ MtiInit
    /\ MigInit /\ NameInit

ProductNext == CreateProduct \/ DeleteProduct \/ RunDoSomething
SpecProduct == Init /\ [][ProductNext]_vars

CopyNext == CreateOld \/ DeleteOld \/ DeleteNew \/ RunCopyData
SpecCopy == Init /\ [][CopyNext]_vars

SignalNext == CreateUser \/ SaveUser \/ DeleteUser \/ SaveProfile \/ DeleteProfile
SpecSignal == Init /\ [][SignalNext]_vars

ProxyNext == ProxyCreate \/ ProxySave \/ ProxyDelete
SpecProxy == Init /\ [][ProxyNext]_vars

MtiNext == CreatePerson \/ CreateEmployee \/ DeletePerson \/ DeleteEmployee
SpecMti == Init /\ [][MtiNext]_vars

MigNext == Apply \/ Unapply
SpecMig == Init /\ [][MigNext]_vars

NameNext == Execute
SpecNames == Init /\ [][NameNext]_vars

Next ==
    \/ ProductNext \/ CopyNext \/ SignalNext \/ ProxyNext \/ MtiNext
    \/ MigNext \/ NameNext
Spec == Init /\ [][Next]_vars

\* ------------------------------------------------------------------- claims
\* A name with no lower-case character left in it.
IsUpperCased(s) == \A i \in 1..Len(s) : s[i] \notin LowerChars

\* C7: after do_something has run, the Product table has the rows it had
\* before, each with its other field (is_active) unchanged and its name the
\* upper-case form of its previous name, which holds no lower-case character;
\* after a second run in a row the table is what it was before that run.
C7_DoSomethingUppercases ==
    prodHist.op = "do_something" =>
        /\ DOMAIN products = DOMAIN prodHist.before
        /\ \A pk \in DOMAIN products :
              /\ products[pk].is_active = prodHist.before[pk].is_active
              /\ products[pk].name = upper(prodHist.before[pk].name)
              /\ IsUpperCased(products[pk].name)
        /\ (prodHist.runs = 2 => products = prodHist.before)

\* C7 witness: do_something has run twice in a row on a table that held, before
\* the first run, a lower-case name and an inactive row.
C7_Witness ==
    /\ prodHist.op = "do_something"
    /\ prodHist.runs = 2
    /\ \E pk \in DOMAIN products :
          /\ products[pk].name = <<"S", "S", "1">>
          /\ ~products[pk].is_active
    /\ Cardinality(DOMAIN products) >= 2

\* The rows of a table that carry a given name.
Named(table, keys, name) == {k \in keys : table[k] = name}

\* C8: after copy_data has run, OldModel is unchanged, every NewModel row that
\* existed is still there with its name, and the rows added are one per
\* OldModel row carrying that row's name, so NewModel grew by the number of
\* OldModel rows.
C8_CopyDataAddsOnePerRow ==
    copyHist.op = "copy_data" =>
        LET added == DOMAIN newRows \ DOMAIN copyHist.new IN
        /\ oldRows = copyHist.old
        /\ DOMAIN copyHist.new \subseteq DOMAIN newRows
        /\ \A k \in DOMAIN copyHist.new : newRows[k] = copyHist.new[k]
        /\ Cardinality(DOMAIN newRows)
             = Cardinality(DOMAIN copyHist.new) + Cardinality(DOMAIN oldRows)
        /\ \A name \in CopyNames :
              Cardinality(Named(newRows, added, name))
                = Cardinality(Named(oldRows, DOMAIN oldRows, name))

\* C8 witness: copy_data has run on a NewModel table that already held a copy
\* of the two OldModel rows, one of which shares its name with the other.
C8_Witness ==
    /\ copyHist.op = "copy_data"
    /\ Cardinality(DOMAIN oldRows) >= 2
    /\ Cardinality(DOMAIN copyHist.new) >= 2
    /\ \E j, k \in DOMAIN oldRows : j /= k /\ oldRows[j] = oldRows[k]
    /\ \E k \in DOMAIN copyHist.new : copyHist.new[k] \in {oldRows[j] : j \in DOMAIN oldRows}

\* Whether a snippet executed on its own, after the imports of lines 1-6,
\* reads a name that nothing has bound.
RaisesAlone(s) ==
    \E n \in Reads(s) : n \notin PreludeNames \cup Imports(s) \cup Defines(s)

\* C1: the snippets are independent: whatever subset of them has executed, in
\* whatever order, every snippet found the names it reads as it finds them on
\* its own, and every name a completed snippet defines is still bound to that
\* snippet's definition (no other snippet has changed its effect).
C1_SnippetsIndependent ==
    /\ \A s \in executed : (s \in raised) = RaisesAlone(s)
    /\ \A s \in executed \ raised : \A n \in Defines(s) : ns[n] = s

\* C2: after a post_save event of a User, a UserProfile referencing that user
\* has been created, and nothing else has changed, exactly when the event's
\* created flag is true; with created false the UserProfile table is what it
\* was before the event.
C2_ProfileCreatedIffCreated ==
    sig.event = "post_save" =>
        IF sig.created
        THEN \E p \in profiles \ sig.before :
                /\ p.user = sig.instance
                /\ profiles = sig.before \cup {p}
        ELSE profiles = sig.before

\* C2 witness: an existing User that has no profile has been saved (created
\* false) while another user's edited profile exists.
C2_Witness ==
    /\ sig.event = "post_save"
    /\ ~sig.created
    /\ \A p \in profiles : p.user /= sig.instance
    /\ \E p \in profiles : p.bio = "bio"

\* What rolling each reversible migration back calls.
ReverseOf(m) ==
    IF m = ReversibleMigration THEN <<"undo_something">>
    ELSE <<"database_backwards">>

\* C4: rolling back the migration whose RunPython has reverse_code, or the one
\* whose operation is a CustomOperation, succeeds: it runs the reverse operation
\* (undo_something, database_backwards) and removes the migration's record, and
\* when it directly follows the apply of that migration the set of applied
\* migrations is what it was before the apply.
C4_ReversibleRollsBack ==
    \A m \in {ReversibleMigration, CustomMigration} :
        (mig.op = "unapply" /\ mig.m = m) =>
            /\ mig.result = "ok"
            /\ mig.ran = ReverseOf(m)
            /\ m \notin applied
            /\ (mig.prevOp = "apply" /\ mig.prevM = m => applied = mig.before2)

\* C4 witness: the migration with reverse_code has been applied and then rolled
\* back, with other migrations applied around it.
C4_Witness ==
    /\ mig.op = "unapply" /\ mig.m = ReversibleMigration
    /\ mig.prevOp = "apply" /\ mig.prevM = ReversibleMigration
    /\ mig.ran = <<"undo_something">>
    /\ CustomMigration \in applied
    /\ applied = mig.before2

C6_EmployeeHasOnePerson ==
    /\ \A e \in employeeRows :
          Cardinality({p \in personRows : p.id = e.person_ptr}) = 1
    /\ \A e \in employeeRows :
          \E p \in personRows :
              [id |-> e.person_ptr, first_name |-> p.first_name,
               last_name |-> p.last_name, employee_id |-> e.employee_id]
                 \in Employee_objects
    /\ Cardinality(Employee_objects) = Cardinality(employeeRows)

\* C6 witness: after a delete (key 1 is gone) an Employee row and a Person row
\* that is no employee exist side by side.
C6_Witness ==
    /\ \A p \in personRows : p.id /= 1
    /\ employeeRows /= {}
    /\ \E p \in personRows : \A e \in employeeRows : e.person_ptr /= p.id

=============================================================================
